---- MODULE Spec2Model ----
(***************************************************************************)
(* Model of heygen_mcp/server.py: the lazily created API client, the eight *)
(* MCP tool coroutines and main().                                         *)
(*                                                                         *)
(* Scheduling: the tools are asyncio coroutines.  A coroutine runs without *)
(* interruption until it awaits something that really suspends; the only   *)
(* such awaits in server.py are the calls of HeyGenApiClient methods.      *)
(* `await get_api_client()` does not suspend (its body holds no await), so *)
(* the code from a tool's entry up to its first client call is one step.   *)
(*                                                                         *)
(* Python values: an Optional value is None or Some(x).  API keys, URLs,   *)
(* status names and messages are strings; a video id is a sequence of      *)
(* one-character strings; a path is a sequence of components, each a       *)
(* sequence of characters (the path's text split at "/").                  *)
(***************************************************************************)
EXTENDS Integers, Sequences, FiniteSets, TLC

VARIABLES
    pcMain,        \* "start" | "serving" | "exited": where main() is
    exit_code,     \* the code given to sys.exit, None while not exited
    args_api_key,  \* args.api_key as parsed from the command line
    env,           \* HEYGEN_API_KEY in os.environ now
    api_client,    \* the module global api_client
    constructed,   \* every HeyGenApiClient constructed so far, in order
    env_reread,    \* whether os.getenv ran after a client had been constructed
    inv            \* per task: the frame of its current tool invocation

vars == <<pcMain, exit_code, args_api_key, env, api_client, constructed,
          env_reread, inv>>

-----------------------------------------------------------------------------
(* Bounds and input sets *)

\* Largest max_attempts a wait_for_video call is given.
MaxAttempts == 2

\* The tasks the dispatcher runs concurrently.
Tasks == {"t1", "t2"}

\* The task that serves calls in the start-up specification.
StartupTasks == {"t1"}

None == [some |-> FALSE]

Some(x) == [some |-> TRUE, v |-> x]

\* Values of an Optional[str] that matter to truthiness: unset, empty, two keys.
KeyValues == {None, Some(""), Some("key-A"), Some("key-B")}

\* Python truthiness of an Optional[str]: None and "" are false.
Truthy(o) == o.some /\ o.v # ""

\* Python truthiness of an Optional path or character sequence.
TruthySeq(o) == o.some /\ Len(o.v) > 0

\* An explicit destination: "out/v.mp4".
ExplicitPath == << <<"o", "u", "t">>, <<"v", ".", "m", "p", "4">> >>

\* The calls of download_video: the download_path omitted, empty and explicit
\* for the plain id, and omitted for the id holding a separator.
DownloadCalls ==
    { [video_id |-> <<"a", "1">>, download_path |-> None],
      [video_id |-> <<"a", "1">>, download_path |-> Some(<< >>)],
      [video_id |-> <<"a", "1">>, download_path |-> Some(ExplicitPath)],
      [video_id |-> <<"x", "/", "y">>, download_path |-> None] }

\* The video id the status tools are asked about.
PolledIds == { <<"a", "1">> }

\* delay_seconds arguments: the default.
Delays == {10}

\* Readings of datetime.now(): two within one second, and a later reading
\* whose fields all have two digits.
Times ==
    { [Y |-> 2024, m |-> 1,  d |-> 5,  H |-> 9,  M |-> 3,  S |-> 7,  us |-> 0],
      [Y |-> 2024, m |-> 1,  d |-> 5,  H |-> 9,  M |-> 3,  S |-> 7,  us |-> 500000],
      [Y |-> 2025, m |-> 12, d |-> 31, H |-> 23, M |-> 59, S |-> 59, us |-> 0] }

-----------------------------------------------------------------------------
(* Exceptions *)

\* An exception instance: its class and its args tuple.
Exc(cls, args) == [cls |-> cls, args |-> args]

\* What a client call can raise: a transport failure without a message (as a
\* timeout carries none) and one with a message.
ClientFailures ==
    { Exc("TransportError", << >>),
      Exc("TransportError", <<"connection refused">>) }

\* BaseException.__str__: "" for no args, the argument for one.
str(e) == IF Len(e.args) = 0 THEN "" ELSE e.args[1]

-----------------------------------------------------------------------------
(* Response models *)

\* The return annotation of each tool: its normal result type.
ReturnAnnotation(tool) ==
    CASE tool = "account_credits"       -> "MCPGetCreditsResponse"
      [] tool = "list_available_voices" -> "MCPVoicesResponse"
      [] tool = "list_avatar_groups"    -> "MCPAvatarGroupResponse"
      [] tool = "list_avatars_in_group" -> "MCPAvatarsInGroupResponse"
      [] tool = "create_video"          -> "MCPVideoGenerateResponse"
      [] tool = "check_video_status"    -> "MCPVideoStatusResponse"
      [] tool = "wait_for_video"        -> "MCPVideoStatusResponse"
      [] tool = "download_video"        -> "MCPVideoGenerateResponse"

\* The response model each tool's except clause constructs.
ExceptResponseType(tool) ==
    CASE tool = "account_credits"       -> "MCPGetCreditsResponse"
      [] tool = "list_available_voices" -> "MCPVoicesResponse"
      [] tool = "list_avatar_groups"    -> "MCPAvatarGroupResponse"
      [] tool = "list_avatars_in_group" -> "MCPAvatarsInGroupResponse"
      [] tool = "create_video"          -> "MCPVideoGenerateResponse"
      [] tool = "check_video_status"    -> "MCPVideoStatusResponse"
      [] tool = "wait_for_video"        -> "MCPVideoStatusResponse"
      [] tool = "download_video"        -> "MCPVideoGenerateResponse"

\* A response model with no field given: every field at its default.
EmptyResponse(type) ==
    [type |-> type, error |-> None, data |-> None, video_id |-> None,
     status |-> None, video_url |-> None, download_path |-> None,
     resource |-> None]

\* T(error=msg)
ErrorResponse(type, msg) == [EmptyResponse(type) EXCEPT !.error = Some(msg)]

\* The success fields of a response: everything but type and error.
SuccessFields == {"data", "video_id", "status", "video_url", "download_path", "resource"}

-----------------------------------------------------------------------------
(* The lazily created client: server.py lines 37-57 *)

\* HeyGenApiClient(api_key): a new instance; n instances exist already.
HeyGenApiClient(api_key, n) == [id |-> n + 1, api_key |-> api_key]

\* A getter that never looks at the cached client.
get_api_client_uncached(client, environ, n) ==
    LET api_key == environ IN
    IF ~Truthy(api_key)
    THEN [ret |-> None,
          exc |-> Some(Exc("ValueError",
                   <<"HEYGEN_API_KEY environment variable not set.">>)),
          api_client |-> client, made |-> << >>, read_env |-> TRUE]
    ELSE LET c == HeyGenApiClient(api_key.v, n) IN
         [ret |-> Some(c), exc |-> None, api_client |-> Some(c),
          made |-> <<c>>, read_env |-> TRUE]

\* A getter that stores the new client before it checks the key.
get_api_client_store_first(client, environ, n) ==
    IF client.some
    THEN [ret |-> client, exc |-> None, api_client |-> client,
          made |-> << >>, read_env |-> FALSE]
    ELSE LET api_key == environ
             c == HeyGenApiClient(IF api_key.some THEN api_key.v ELSE "", n)
         IN IF ~Truthy(api_key)
            THEN [ret |-> None,
                  exc |-> Some(Exc("ValueError",
                           <<"HEYGEN_API_KEY environment variable not set.">>)),
                  api_client |-> Some(c), made |-> <<c>>, read_env |-> TRUE]
            ELSE [ret |-> Some(c), exc |-> None, api_client |-> Some(c),
                  made |-> <<c>>, read_env |-> TRUE]

\* get_api_client() run on the global `client`, the environment value
\* `environ` and n instances constructed so far.  The outcome: the value
\* returned (ret) or the exception raised (exc), the global afterwards,
\* the instances constructed (made) and whether os.getenv was called.
get_api_client(client, environ, n) ==
    IF client.some
    THEN [ret |-> client, exc |-> None, api_client |-> client,
          made |-> << >>, read_env |-> FALSE]
    ELSE LET api_key == environ IN
         IF ~Truthy(api_key)
         THEN [ret |-> None,
               exc |-> Some(Exc("ValueError",
                        <<"HEYGEN_API_KEY environment variable not set.">>)),
               api_client |-> client, made |-> << >>, read_env |-> TRUE]
         ELSE LET c == HeyGenApiClient(api_key.v, n) IN
              [ret |-> Some(c), exc |-> None, api_client |-> Some(c),
               made |-> <<c>>, read_env |-> TRUE]

-----------------------------------------------------------------------------
(* The frame of a tool invocation *)

\* The arguments of a tool call; a tool reads only its own parameters.
NoArgs == [video_id |-> << >>, download_path |-> None,
           max_attempts |-> 0, delay_seconds |-> 0,
           include_public |-> FALSE, group_id |-> "",
           input_text |-> "", avatar_id |-> None, voice_id |-> None,
           title |-> ""]

\* A call of a client method; a method reads only its own parameters.
NoCall == [method |-> "none", video_id |-> << >>, max_attempts |-> 0,
           delay_seconds |-> 0, include_public |-> FALSE, group_id |-> "",
           request |-> None, video_url |-> "", download_path |-> << >>]

\* The frame of `tool` called with arguments `a`, before its first statement.
Frame(tool, a) ==
    [pc |-> "entry", tool |-> tool, args |-> a,
     client |-> None,      \* the client get_api_client returned
     call |-> NoCall,      \* the client method call being awaited (or the last)
     status |-> None,      \* the last status response the client received
     polls |-> 0,          \* status queries issued so far
     now |-> None,         \* the reading of datetime.now()
     made_dir |-> FALSE,   \* whether temp_dir.mkdir ran
     downloads |-> 0,      \* binary download requests issued
     wrote |-> None,       \* the file the client wrote
     raised |-> None,      \* the exception raised inside the try block
     result |-> None,      \* the value returned to the dispatcher
     escaped |-> None]     \* the exception that left the coroutine

IdleFrame == [Frame("none", NoArgs) EXCEPT !.pc = "idle"]

\* An except clause that catches ValueError only: anything else leaves the
\* coroutine.
except_ValueError(f, e, origin) ==
    IF e.cls = "ValueError"
    THEN [f EXCEPT !.pc = "done",
                   !.raised = Some([e |-> e, origin |-> origin]),
                   !.result = Some(ErrorResponse(ExceptResponseType(f.tool), str(e)))]
    ELSE [f EXCEPT !.pc = "raised",
                   !.raised = Some([e |-> e, origin |-> origin]),
                   !.escaped = Some(e)]

\* `except Exception as e: return T(error=str(e))`; `origin` records which
\* call raised e ("getter", "client" or "local").
except_Exception(f, e, origin) ==
    [f EXCEPT !.pc = "done",
              !.raised = Some([e |-> e, origin |-> origin]),
              !.result = Some(ErrorResponse(ExceptResponseType(f.tool), str(e)))]

\* `return value`
Return(f, value) == [f EXCEPT !.pc = "done", !.result = Some(value)]

\* A task can take a new call when it runs none.
Free(p) == pcMain = "serving" /\ inv[p].pc = "idle"

\* Globals a step of a tool leaves alone unless it runs the getter.
MainUnchanged == UNCHANGED <<pcMain, exit_code, args_api_key, env>>

ClientUnchanged == UNCHANGED <<api_client, constructed, env_reread>>

\* `client = await get_api_client()` inside the try block of frame f of task
\* p.  When the getter raises, the except clause runs; else the coroutine
\* goes on to `rest`: the frame as the statements after the getter leave it,
\* up to the first client call that suspends, which now holds the client.
TryGetClient(p, f, rest) ==
    LET g == get_api_client(api_client, env, Len(constructed)) IN
    /\ api_client' = g.api_client
    /\ constructed' = constructed \o g.made
    /\ env_reread' = (env_reread \/ (g.read_env /\ Len(constructed) > 0))
    /\ inv' = [inv EXCEPT ![p] =
                 IF g.exc.some
                 THEN except_Exception(f, g.exc.v, "getter")
                 ELSE [rest EXCEPT !.client = g.ret]]
    /\ MainUnchanged

\* `await client.method(...)`: the coroutine is suspended in the client call c.
AwaitCall(f, c) == [f EXCEPT !.pc = "call", !.call = c]

-----------------------------------------------------------------------------
(* The HeyGenApiClient methods, as server.py uses them *)

\* What the status endpoint can answer for a job: the job's state and, maybe,
\* the URL of the rendered file.
StatusResponses(video_id) ==
    LET R(st, url) == [EmptyResponse("MCPVideoStatusResponse") EXCEPT
                         !.video_id = Some(video_id), !.status = Some(st),
                         !.video_url = url]
    IN { R("pending", None),
         R("processing", Some("https://x/y.mp4")),
         R("failed", Some("")),
         R("completed", Some("https://x/y.mp4")) }

\* The values a client method can return for the call c.
ClientResponses(c) ==
    CASE c.method = "get_video_status" -> StatusResponses(c.video_id)
      [] c.method = "generate_avatar_video" ->
           { [EmptyResponse("MCPVideoGenerateResponse") EXCEPT
                !.video_id = Some(<<"n", "1">>), !.status = Some("pending")] }
      [] c.method = "get_remaining_credits" ->
           { [EmptyResponse("MCPGetCreditsResponse") EXCEPT !.data = Some("credits")] }
      [] c.method = "get_voices" ->
           { [EmptyResponse("MCPVoicesResponse") EXCEPT !.data = Some("voices")] }
      [] c.method = "list_avatar_groups" ->
           { [EmptyResponse("MCPAvatarGroupResponse") EXCEPT !.data = Some("groups")] }
      [] c.method = "get_avatars_in_group" ->
           { [EmptyResponse("MCPAvatarsInGroupResponse") EXCEPT !.data = Some("avatars")] }

\* A job status after which polling changes nothing.
Terminal(r) == r.status \in {Some("completed"), Some("failed")}

\* client.wait_for_video_completion(video_id, max_attempts, delay_seconds)
\* up to its first suspension: no poll at all for max_attempts <= 0, else
\* the first status query.
wait_for_video_completion_begin(f) ==
    IF f.call.max_attempts <= 0
    THEN [f EXCEPT !.pc = "done",
                   !.result = Some(EmptyResponse("MCPVideoStatusResponse"))]
    ELSE [f EXCEPT !.pc = "poll", !.polls = 1]

\* The loop of wait_for_video_completion when a status query answers r:
\* return r when the job is terminal or the attempts are used up, else sleep.
wait_for_video_completion_polled(f, r) ==
    LET f1 == [f EXCEPT !.status = Some(r)] IN
    IF Terminal(r) \/ f.polls >= f.call.max_attempts
    THEN [f1 EXCEPT !.pc = "done", !.result = Some(r)]
    ELSE [f1 EXCEPT !.pc = "sleep"]

\* The directory the process runs in.
Cwd == << << >>, <<"w", "d">> >>

\* The absolute form of a path: an absolute path starts with an empty component.
Resolve(path) == IF path[1] = << >> THEN path ELSE Cwd \o path

-----------------------------------------------------------------------------
(* The six pass-through tools: server.py lines 65-165 *)

account_credits(p) ==
    /\ Free(p)
    /\ LET f == Frame("account_credits", NoArgs) IN
       TryGetClient(p, f,
         AwaitCall(f, [NoCall EXCEPT !.method = "get_remaining_credits"]))

list_available_voices(p) ==
    /\ Free(p)
    /\ LET f == Frame("list_available_voices", NoArgs) IN
       TryGetClient(p, f, AwaitCall(f, [NoCall EXCEPT !.method = "get_voices"]))

list_avatar_groups(p) ==
    /\ Free(p)
    /\ \E include_public \in BOOLEAN :
         LET f == Frame("list_avatar_groups",
                        [NoArgs EXCEPT !.include_public = include_public])
         IN TryGetClient(p, f,
              AwaitCall(f, [NoCall EXCEPT !.method = "list_avatar_groups",
                                          !.include_public = f.args.include_public]))

list_avatars_in_group(p) ==
    /\ Free(p)
    /\ \E group_id \in {"g1"} :
         LET f == Frame("list_avatars_in_group", [NoArgs EXCEPT !.group_id = group_id])
         IN TryGetClient(p, f,
              AwaitCall(f, [NoCall EXCEPT !.method = "get_avatars_in_group",
                                          !.group_id = f.args.group_id]))

\* VideoGenerateRequest(title=..., video_inputs=[...], dimension=...)
VideoGenerateRequest(a) ==
    [title |-> a.title,
     video_inputs |-> << [character |-> [avatar_id |-> a.avatar_id],
                          voice |-> [input_text |-> a.input_text,
                                     voice_id |-> a.voice_id]] >>,
     dimension |-> [width |-> 1280, height |-> 720]]

create_video(p) ==
    /\ Free(p)
    /\ \E input_text \in {"Hello world"}, avatar_id \in {None, Some("av1")} :
         LET f == Frame("create_video", [NoArgs EXCEPT !.input_text = input_text,
                                                       !.avatar_id = avatar_id])
             request == VideoGenerateRequest(f.args)
         IN TryGetClient(p, f,
              AwaitCall(f, [NoCall EXCEPT !.method = "generate_avatar_video",
                                          !.request = Some(request)]))

\* `client.get_video_status(video_id)` is issued: one more status query.
AwaitStatus(f) ==
    [AwaitCall(f, [NoCall EXCEPT !.method = "get_video_status",
                                 !.video_id = f.args.video_id])
       EXCEPT !.polls = @ + 1]

check_video_status(p) ==
    /\ Free(p)
    /\ \E video_id \in PolledIds :
         LET f == Frame("check_video_status", [NoArgs EXCEPT !.video_id = video_id])
         IN TryGetClient(p, f, AwaitStatus(f))

PassThroughTools ==
    {"account_credits", "list_available_voices", "list_avatar_groups",
     "list_avatars_in_group", "create_video", "check_video_status"}

\* `return await client.method(...)`: the client's value is returned as it is.
ClientReturns(p) ==
    /\ inv[p].pc = "call"
    /\ inv[p].tool \in PassThroughTools
    /\ \E r \in ClientResponses(inv[p].call) :
         inv' = [inv EXCEPT ![p] = Return(inv[p], r)]
    /\ MainUnchanged /\ ClientUnchanged

\* The awaited client call raises: the tool's except clause runs.
ClientRaises(p) ==
    /\ inv[p].pc \in {"call", "poll"}
    /\ \E e \in ClientFailures :
         inv' = [inv EXCEPT ![p] = except_Exception(inv[p], e, "client")]
    /\ MainUnchanged /\ ClientUnchanged

-----------------------------------------------------------------------------
(* wait_for_video: server.py lines 168-183 *)

\* The call with its last two arguments in each other's place.
wait_call_swapped(video_id, max_attempts, delay_seconds) ==
    [NoCall EXCEPT !.method = "wait_for_video_completion",
                   !.video_id = video_id,
                   !.max_attempts = delay_seconds,
                   !.delay_seconds = max_attempts]

\* client.wait_for_video_completion(video_id, max_attempts, delay_seconds):
\* the call as line 181 makes it.
wait_call(video_id, max_attempts, delay_seconds) ==
    [NoCall EXCEPT !.method = "wait_for_video_completion",
                   !.video_id = video_id,
                   !.max_attempts = max_attempts,
                   !.delay_seconds = delay_seconds]

wait_for_video(p) ==
    /\ Free(p)
    /\ \E video_id \in PolledIds, max_attempts \in 0..MaxAttempts,
          delay_seconds \in Delays :
         LET f == Frame("wait_for_video", [NoArgs EXCEPT !.video_id = video_id,
                                                         !.max_attempts = max_attempts,
                                                         !.delay_seconds = delay_seconds])
         IN TryGetClient(p, f,
              wait_for_video_completion_begin(
                AwaitCall(f, wait_call(f.args.video_id, f.args.max_attempts,
                                       f.args.delay_seconds))))

\* A status query of the wait loop is answered.
PollReturns(p) ==
    /\ inv[p].pc = "poll"
    /\ \E r \in StatusResponses(inv[p].call.video_id) :
         inv' = [inv EXCEPT ![p] = wait_for_video_completion_polled(inv[p], r)]
    /\ MainUnchanged /\ ClientUnchanged

\* The sleep between two polls ends and the next status query is issued.
SleepDone(p) ==
    /\ inv[p].pc = "sleep"
    /\ inv' = [inv EXCEPT ![p] = [inv[p] EXCEPT !.pc = "poll", !.polls = @ + 1]]
    /\ MainUnchanged /\ ClientUnchanged

-----------------------------------------------------------------------------
(* download_video: server.py lines 186-231 *)

Digits == <<"0", "1", "2", "3", "4", "5", "6", "7", "8", "9">>

RECURSIVE Pow10(_)
Pow10(k) == IF k = 0 THEN 1 ELSE 10 * Pow10(k - 1)

\* n in decimal, zero-padded to w digits (strftime's %Y, %m, %d, %H, %M, %S).
Pad(n, w) == [i \in 1..w |-> Digits[((n \div Pow10(w - i)) % 10) + 1]]

\* A format without the seconds: "%Y%m%d_%H%M".
strftime_minutes(t) ==
    Pad(t.Y, 4) \o Pad(t.m, 2) \o Pad(t.d, 2) \o <<"_">>
      \o Pad(t.H, 2) \o Pad(t.M, 2)

\* datetime.strftime("%Y%m%d_%H%M%S")
strftime(t) ==
    Pad(t.Y, 4) \o Pad(t.m, 2) \o Pad(t.d, 2) \o <<"_">>
      \o Pad(t.H, 2) \o Pad(t.M, 2) \o Pad(t.S, 2)

\* The text s split at "/" into path components.
RECURSIVE SplitPath(_)
SplitPath(s) ==
    IF \A i \in 1..Len(s) : s[i] # "/"
    THEN <<s>>
    ELSE LET k == CHOOSE i \in 1..Len(s) :
                    s[i] = "/" /\ \A j \in 1..(i - 1) : s[j] # "/"
         IN <<SubSeq(s, 1, k - 1)>> \o SplitPath(SubSeq(s, k + 1, Len(s)))

\* Path(tempfile.gettempdir()) / "heygen_videos"
temp_dir ==
    << << >>, <<"t", "m", "p">>,
       <<"h", "e", "y", "g", "e", "n", "_", "v", "i", "d", "e", "o", "s">> >>

\* str(temp_dir / f"{timestamp}_{video_id}.mp4")
default_download_path(now, video_id) ==
    LET timestamp == strftime(now) IN
    temp_dir \o SplitPath(timestamp \o <<"_">> \o video_id \o <<".", "m", "p", "4">>)

\* `status.video_url is None`: an empty URL passes.
url_is_None(status) == ~status.video_url.some

\* `not status.video_url`
url_missing(status) == ~Truthy(status.video_url)

\* temp_dir.mkdir(exist_ok=True): the directory exists afterwards, or the
\* call raises.
MkdirOutcomes ==
    { None, Some(Exc("PermissionError", <<"[Errno 13] Permission denied">>)) }

\* Resource(file_path): the resource, or the exception of the constructor.
ResourceOutcomes(file_path) ==
    { [ok |-> TRUE, v |-> [uri |-> file_path]],
      [ok |-> FALSE, v |-> Exc("TypeError", <<"Resource() takes no positional arguments">>)] }

\* client.download_video(video_url, download_path): the call of line 217.
download_call(video_url, download_path) ==
    [NoCall EXCEPT !.method = "download_video", !.video_url = video_url,
                   !.download_path = download_path]

\* `await client.download_video(...)`: one more binary download request.
AwaitDownload(f, c) == [AwaitCall(f, c) EXCEPT !.downloads = @ + 1]

\* Lines 201-217: from the answer `status` of the status query up to the
\* download call.  mk is the outcome of mkdir and now the clock reading,
\* both used only when no download_path was given.
download_video_after_status(f0, status, mk, now) ==
    LET f == [f0 EXCEPT !.status = Some(status)] IN
    IF url_missing(status)
    THEN Return(f, ErrorResponse("MCPVideoGenerateResponse",
           "Video URL not available. Video may still be processing or failed."))
    ELSE IF ~TruthySeq(f.args.download_path)
         THEN IF mk.some
              THEN except_Exception(f, mk.v, "local")
              ELSE AwaitDownload([f EXCEPT !.made_dir = TRUE, !.now = Some(now)],
                     download_call(status.video_url.v,
                                   default_download_path(now, f.args.video_id)))
         ELSE AwaitDownload(f, download_call(status.video_url.v,
                                             f.args.download_path.v))

\* A result that leaves the URL out.
download_result_no_url(video_id, status, file_path, resource) ==
    [EmptyResponse("MCPVideoGenerateResponse") EXCEPT
       !.video_id = Some(video_id),
       !.status = Some("downloaded"),
       !.download_path = Some(file_path),
       !.resource = Some(resource)]

\* Lines 223-229: the value a completed download returns.
download_result(video_id, status, file_path, resource) ==
    [EmptyResponse("MCPVideoGenerateResponse") EXCEPT
       !.video_id = Some(video_id),
       !.status = Some("downloaded"),
       !.video_url = status.video_url,
       !.download_path = Some(file_path),
       !.resource = Some(resource)]

\* Lines 217-229: the download call returned file_path; ro is the outcome of
\* Resource(file_path).
download_video_after_download(f0, file_path, ro) ==
    LET f == [f0 EXCEPT !.wrote = Some(file_path)] IN
    IF ro.ok
    THEN Return(f, download_result(f.args.video_id, f.status.v, file_path, ro.v))
    ELSE except_Exception(f, ro.v, "local")

download_video(p) ==
    /\ Free(p)
    /\ \E c \in DownloadCalls :
         LET f == Frame("download_video", [NoArgs EXCEPT !.video_id = c.video_id,
                                                         !.download_path = c.download_path])
         IN TryGetClient(p, f, AwaitStatus(f))

\* The status query of download_video is answered.
StatusReturns(p) ==
    /\ inv[p].pc = "call"
    /\ inv[p].tool = "download_video"
    /\ inv[p].call.method = "get_video_status"
    /\ \E r \in StatusResponses(inv[p].call.video_id), mk \in MkdirOutcomes,
          now \in Times :
         inv' = [inv EXCEPT ![p] = download_video_after_status(inv[p], r, mk, now)]
    /\ MainUnchanged /\ ClientUnchanged

\* The binary download is done: the client wrote the file and returns its
\* resolved path.
DownloadReturns(p) ==
    /\ inv[p].pc = "call"
    /\ inv[p].call.method = "download_video"
    /\ LET file_path == Resolve(inv[p].call.download_path) IN
       \E ro \in ResourceOutcomes(file_path) :
         inv' = [inv EXCEPT ![p] = download_video_after_download(inv[p], file_path, ro)]
    /\ MainUnchanged /\ ClientUnchanged

\* The dispatcher takes the value the coroutine returned; the frame is gone.
Deliver(p) ==
    /\ inv[p].pc = "done"
    /\ inv' = [inv EXCEPT ![p] = IdleFrame]
    /\ MainUnchanged /\ ClientUnchanged

-----------------------------------------------------------------------------
(* main and the environment: server.py lines 259-275 *)

\* A main() that never writes --api-key into the environment.
main_no_override ==
    /\ pcMain = "start"
    /\ env' = env
    /\ IF ~Truthy(env) /\ ~Truthy(args_api_key)
       THEN pcMain' = "exited" /\ exit_code' = Some(1)
       ELSE pcMain' = "serving" /\ exit_code' = exit_code
    /\ UNCHANGED <<args_api_key, inv>>
    /\ ClientUnchanged

\* main(): --api-key, when given, is written into the environment; without a
\* key in the environment the process exits with code 1, else the server runs.
main ==
    /\ pcMain = "start"
    /\ LET environ == IF Truthy(args_api_key) THEN args_api_key ELSE env IN
       /\ env' = environ
       /\ IF ~Truthy(environ)
          THEN pcMain' = "exited" /\ exit_code' = Some(1)
          ELSE pcMain' = "serving" /\ exit_code' = exit_code
    /\ UNCHANGED <<args_api_key, inv>>
    /\ ClientUnchanged

\* Something outside server.py changes HEYGEN_API_KEY in os.environ.
SetEnv ==
    /\ pcMain = "serving"
    /\ \E v \in KeyValues : v # env /\ env' = v
    /\ UNCHANGED <<pcMain, exit_code, args_api_key, inv>>
    /\ ClientUnchanged

-----------------------------------------------------------------------------
(* Specifications *)

\* A step of task p.
TaskStep(p) ==
    \/ account_credits(p)
    \/ list_available_voices(p)
    \/ list_avatar_groups(p)
    \/ list_avatars_in_group(p)
    \/ create_video(p)
    \/ check_video_status(p)
    \/ wait_for_video(p)
    \/ download_video(p)
    \/ ClientReturns(p)
    \/ ClientRaises(p)
    \/ PollReturns(p)
    \/ SleepDone(p)
    \/ StatusReturns(p)
    \/ DownloadReturns(p)
    \/ Deliver(p)

\* The module is loaded (api_client = None) and its mcp object is serving
\* tool calls; HEYGEN_API_KEY is whatever the environment holds.
Init ==
    /\ pcMain = "serving"
    /\ exit_code = None
    /\ args_api_key = None
    /\ env \in KeyValues
    /\ api_client = None
    /\ constructed = << >>
    /\ env_reread = FALSE
    /\ inv = [p \in Tasks |-> IdleFrame]

Next ==
    \/ \E p \in Tasks : TaskStep(p)
    \/ SetEnv

Spec == Init /\ [][Next]_vars

\* The process starts: main() has the command line and the environment, and
\* only server.py writes the environment.
InitStartup ==
    /\ pcMain = "start"
    /\ exit_code = None
    /\ args_api_key \in KeyValues
    /\ env \in KeyValues
    /\ api_client = None
    /\ constructed = << >>
    /\ env_reread = FALSE
    /\ inv = [p \in Tasks |-> IdleFrame]

NextStartup ==
    \/ main
    \/ \E p \in StartupTasks : TaskStep(p)

SpecStartup == InitStartup /\ [][NextStartup]_vars

\* One task serves calls; the event loop resumes a coroutine whose awaited
\* call has an outcome, and the dispatcher keeps sending calls.
NextLive ==
    \/ \E p \in StartupTasks : TaskStep(p)
    \/ SetEnv

SpecLive ==
    /\ Init
    /\ [][NextLive]_vars
    /\ \A p \in StartupTasks : WF_vars(TaskStep(p))

-----------------------------------------------------------------------------
(* Properties *)

KeyErrorMessage == "HEYGEN_API_KEY environment variable not set."

NoUrlMessage == "Video URL not available. Video may still be processing or failed."

\* No success field of the response r is populated.
NoSuccessField(r) == \A fld \in SuccessFields : ~r[fld].some

\* C1: whenever the client getter or a client call raises inside a tool, the
\* invocation ends by returning a value of the tool's declared result type
\* that carries an error string, and no exception ever leaves a tool.
C1_ExceptionsBecomeResults ==
    \A p \in Tasks :
      LET f == inv[p] IN
      /\ f.pc # "raised"
      /\ ~f.escaped.some
      /\ (f.raised.some /\ f.raised.v.origin \in {"getter", "client"}) =>
           /\ f.pc = "done"
           /\ f.result.some
           /\ f.result.v.type = ReturnAnnotation(f.tool)
           /\ f.result.v.error.some

\* C1 witness: a binary download raised and download_video returned a result.
C1_Witness ==
    \E p \in Tasks :
      /\ inv[p].tool = "download_video"
      /\ inv[p].call.method = "download_video"
      /\ inv[p].raised.some
      /\ inv[p].raised.v.origin = "client"
      /\ inv[p].pc = "done"

\* C2: when a client call fails with a transport failure, whatever message it
\* carries, the result has a non-empty error and no success field populated.
C2_TransportFailureNonEmptyError ==
    \A p \in Tasks :
      LET f == inv[p] IN
      (f.pc = "done" /\ f.raised.some /\ f.raised.v.origin = "client") =>
        /\ f.result.some
        /\ Truthy(f.result.v.error)
        /\ NoSuccessField(f.result.v)

\* C3: at most one client is ever constructed; every call of get_api_client
\* returns that one instance; the environment is never read again once a
\* client exists, so the key in use is the key first resolved.
C3_SingleClient ==
    /\ Len(constructed) <= 1
    /\ ~env_reread
    /\ api_client.some => (Len(constructed) = 1 /\ api_client.v = constructed[1])
    /\ \A p \in Tasks :
         inv[p].client.some =>
           /\ Len(constructed) = 1
           /\ inv[p].client.v = constructed[1]
           /\ inv[p].client = api_client

\* C3 witness: two invocations are suspended at once, both holding the client,
\* after the environment was changed to another key.
C3_Witness ==
    /\ \A p \in Tasks : inv[p].pc = "call" /\ inv[p].client.some
    /\ Truthy(env)
    /\ api_client.some
    /\ env.v # api_client.v.api_key

\* C4: when the status query of download_video answers without a video URL
\* (absent or empty), the invocation has returned the descriptive error and
\* nothing else: no download request, no directory made, no file written, and
\* the status was queried once.
C4_NoUrlFailsFast ==
    \A p \in Tasks :
      LET f == inv[p] IN
      (/\ f.tool = "download_video"
       /\ f.status.some
       /\ (~f.status.v.video_url.some \/ f.status.v.video_url.v = "")) =>
        /\ f.pc = "done"
        /\ f.result = Some(ErrorResponse("MCPVideoGenerateResponse", NoUrlMessage))
        /\ f.downloads = 0
        /\ ~f.made_dir
        /\ ~f.wrote.some
        /\ f.polls = 1
        /\ f.call.method = "get_video_status"

\* C4 witness: a download_video call without download_path met a status whose
\* URL is the empty string.
C4_Witness ==
    \E p \in Tasks :
      /\ inv[p].tool = "download_video"
      /\ ~inv[p].args.download_path.some
      /\ inv[p].status.some
      /\ inv[p].status.v.video_url = Some("")
      /\ inv[p].pc = "done"

\* The invariant part of C5.
WaitBounded ==
    \A p \in Tasks :
      LET f == inv[p] IN
      f.tool = "wait_for_video" =>
        /\ f.polls <= f.args.max_attempts
        /\ f.pc = "sleep" => f.polls < f.args.max_attempts
        /\ (f.pc = "done" /\ ~f.raised.some) =>
             /\ f.result.some
             /\ ~f.result.v.error.some
             /\ f.polls > 0 => (f.status.some /\ f.result = f.status)
             /\ f.polls = 0 => f.args.max_attempts = 0

C6_DownloadOnlyCompleted ==
    \A p \in Tasks :
      (inv[p].tool = "download_video" /\ inv[p].downloads > 0) =>
        (inv[p].status.some /\ inv[p].status.v.status = Some("completed"))

\* A download_video invocation that returned without an error.
DownloadSucceeded(f) ==
    /\ f.tool = "download_video"
    /\ f.pc = "done"
    /\ f.result.some
    /\ ~f.result.v.error.some

\* C7 as stated: a successful download_video returns the written path, the
\* video id of the call, and the status and the URL its status query observed.
C7_EchoesObservedStatus ==
    \A p \in Tasks :
      LET f == inv[p] IN
      DownloadSucceeded(f) =>
        /\ f.result.v.download_path = f.wrote
        /\ f.result.v.video_id = Some(f.args.video_id)
        /\ f.result.v.status = f.status.v.status
        /\ f.result.v.video_url = f.status.v.video_url

\* C7 amended: a successful download_video returns the written path, the video
\* id of the call, the URL its status query observed, and the status
\* "downloaded".
C7_EchoesIdAndUrl ==
    \A p \in Tasks :
      LET f == inv[p] IN
      DownloadSucceeded(f) =>
        /\ f.wrote.some
        /\ f.result.v.download_path = f.wrote
        /\ f.result.v.video_id = Some(f.args.video_id)
        /\ f.result.v.status = Some("downloaded")
        /\ f.status.some
        /\ Truthy(f.status.v.video_url)
        /\ f.result.v.video_url = f.status.v.video_url

\* C7 witness: a download of a job observed as completed returned its result.
C7_Witness ==
    \E p \in Tasks :
      /\ DownloadSucceeded(inv[p])
      /\ inv[p].status.v.status = Some("completed")
      /\ inv[p].args.download_path = Some(ExplicitPath)

IsDigit(c) == c \in {"0", "1", "2", "3", "4", "5", "6", "7", "8", "9"}

\* The number a sequence of digit characters writes.
RECURSIVE NumberOf(_)
NumberOf(ds) ==
    IF Len(ds) = 0 THEN 0
    ELSE 10 * NumberOf(SubSeq(ds, 1, Len(ds) - 1))
           + (CHOOSE n \in 0..9 : Digits[n + 1] = ds[Len(ds)])

HasSeparator(id) == \E i \in 1..Len(id) : id[i] = "/"

\* The frame generated a default path and handed it to the client.
Generated(f) == f.tool = "download_video" /\ f.now.some /\ f.downloads > 0

\* The last component of a path.
FileName(path) == path[Len(path)]

\* The directory of a path.
Parent(path) == SubSeq(path, 1, Len(path) - 1)

Mp4 == <<".", "m", "p", "4">>

\* The year-month-day-hour-minute-second fields of a clock reading.
SecondOf(t) == <<t.Y, t.m, t.d, t.H, t.M, t.S>>

\* C8 as stated: the default destination lies in temp_dir, its name is
\* fourteen consecutive digits, "_", the job id and ".mp4", and two calls for
\* one job id at different times get different names.
C8_FourteenDigitName ==
    /\ \A p \in Tasks :
         LET f == inv[p]
             path == f.call.download_path
             name == FileName(path)
             id == f.args.video_id
         IN Generated(f) =>
              /\ Parent(path) = temp_dir
              /\ Len(name) = 14 + 1 + Len(id) + 4
              /\ \A i \in 1..14 : IsDigit(name[i])
              /\ name[15] = "_"
              /\ SubSeq(name, 16, 15 + Len(id)) = id
              /\ SubSeq(name, 16 + Len(id), Len(name)) = Mp4
    /\ \A p, q \in Tasks :
         (/\ Generated(inv[p]) /\ Generated(inv[q])
          /\ inv[p].args.video_id = inv[q].args.video_id
          /\ inv[p].now # inv[q].now) =>
           FileName(inv[p].call.download_path) # FileName(inv[q].call.download_path)

\* C8 amended: for a job id without a path separator the default destination
\* lies in temp_dir and its name is YYYYMMDD, "_", HHMMSS, "_", the job id and
\* ".mp4", the digits being the clock reading's fields; two calls for one job
\* id whose clock readings differ in a field down to the second get different
\* destinations.
C8_TimestampedName ==
    /\ \A p \in Tasks :
         LET f == inv[p]
             path == f.call.download_path
             name == FileName(path)
             id == f.args.video_id
             t == f.now.v
         IN (Generated(f) /\ ~HasSeparator(id)) =>
              /\ Parent(path) = temp_dir
              /\ Len(name) = 8 + 1 + 6 + 1 + Len(id) + 4
              /\ \A i \in (1..8) \cup (10..15) : IsDigit(name[i])
              /\ name[9] = "_"
              /\ name[16] = "_"
              /\ SubSeq(name, 17, 16 + Len(id)) = id
              /\ SubSeq(name, 17 + Len(id), Len(name)) = Mp4
              /\ NumberOf(SubSeq(name, 1, 4)) = t.Y
              /\ NumberOf(SubSeq(name, 5, 6)) = t.m
              /\ NumberOf(SubSeq(name, 7, 8)) = t.d
              /\ NumberOf(SubSeq(name, 10, 11)) = t.H
              /\ NumberOf(SubSeq(name, 12, 13)) = t.M
              /\ NumberOf(SubSeq(name, 14, 15)) = t.S
    /\ \A p, q \in Tasks :
         (/\ Generated(inv[p]) /\ Generated(inv[q])
          /\ inv[p].args.video_id = inv[q].args.video_id
          /\ SecondOf(inv[p].now.v) # SecondOf(inv[q].now.v)) =>
           inv[p].call.download_path # inv[q].call.download_path

\* C8 witness: two calls for the same plain job id, made in different seconds,
\* both handed a generated destination to the client.
C8_Witness ==
    /\ \A p \in Tasks : Generated(inv[p]) /\ inv[p].args.video_id = <<"a", "1">>
    /\ SecondOf(inv["t1"].now.v) # SecondOf(inv["t2"].now.v)

\* C9: the server serves only with a non-empty key in the environment; with
\* no non-empty key from --api-key or the environment main() exits with a
\* nonzero code and no tool is ever served; a non-empty --api-key is the
\* environment's value from then on and the key of every client constructed.
C9_StartupKey ==
    /\ pcMain = "serving" => Truthy(env)
    /\ pcMain = "exited" => (~Truthy(env) /\ ~Truthy(args_api_key))
    /\ (~Truthy(args_api_key) /\ ~Truthy(env) /\ pcMain # "start") =>
         (pcMain = "exited" /\ exit_code.some /\ exit_code.v # 0)
    /\ pcMain # "serving" =>
         (~api_client.some /\ \A p \in Tasks : inv[p].pc = "idle")
    /\ (Truthy(args_api_key) /\ pcMain # "start") =>
         /\ pcMain = "serving"
         /\ env = args_api_key
         /\ api_client.some => api_client.v.api_key = args_api_key.v
         /\ \A p \in Tasks :
              inv[p].client.some => inv[p].client.v.api_key = args_api_key.v

\* C9 witness: started with --api-key, the server has built its client.
C9_Witness ==
    /\ pcMain = "serving"
    /\ Truthy(args_api_key)
    /\ api_client.some
    /\ \E p \in StartupTasks : inv[p].pc = "call"

\* Task p takes a new tool call in this step.
Invoked(p) == inv[p].pc = "idle" /\ inv'[p].pc # "idle"

\* C10: a call made while no client exists and the key is missing returns the
\* key error in the tool's result type and leaves api_client unset; a call made
\* while no client exists and the key is present builds the client from that
\* key and goes on without an error; a cached client always has a key.
C10_MissingKeyRecoverable ==
    /\ [](api_client.some => api_client.v.api_key # "")
    /\ [][\A p \in Tasks :
            (Invoked(p) /\ ~api_client.some) =>
              IF ~env.some \/ env.v = ""
              THEN /\ inv'[p].pc = "done"
                   /\ inv'[p].result =
                        Some(ErrorResponse(ReturnAnnotation(inv'[p].tool), KeyErrorMessage))
                   /\ ~api_client'.some
                   /\ constructed' = constructed
              ELSE /\ api_client'.some
                   /\ api_client'.v.api_key = env.v
                   /\ inv'[p].client = api_client'
                   /\ ~inv'[p].raised.some
                   /\ inv'[p].pc \in {"call", "poll", "done"}]_vars

\* C10 witness: one call returned the key error and a later call, made after
\* the key appeared, holds the client and is suspended in its client call.
C10_Witness ==
    /\ inv["t1"].pc = "done"
    /\ inv["t1"].raised.some
    /\ inv["t1"].raised.v.origin = "getter"
    /\ inv["t2"].pc = "call"
    /\ inv["t2"].client.some

====
